---- MODULE Spec2Model ----
(***************************************************************************)
(* State-machine model of src/src/routes/mcp.py: the Flask blueprint that  *)
(* authenticates POST /mcp, routes by `method` and tool name, and turns    *)
(* tool calls into REST calls against the n8n backend.                     *)
(*                                                                         *)
(* One inbound request is handled at a time.  A handler runs atomically up *)
(* to the point where it blocks in requests.get/post/put; the backend's    *)
(* reply is a separate step, chosen nondeterministically.                  *)
(***************************************************************************)
EXTENDS Integers, Sequences, FiniteSets, TLC

VARIABLES
    environ,      \* os.environ: the variables init_config reads
    N8N_API_URL,  \* module globals (lines 14-16)
    N8N_API_KEY,
    AUTH_TOKEN,
    request,      \* the request being handled (or the last one handled)
    pc,           \* "idle", or the backend call the handler is blocked in
    frame,        \* locals of the blocked handler
    calls,        \* backend calls issued for `request`, in order
    replies,      \* the backend's replies, replies[i] answering calls[i]
    response,     \* the response sent for `request`
    health_bodies, \* the bodies GET /health has returned so far
    threads       \* the worker threads of the concurrent server

vars == <<environ, N8N_API_URL, N8N_API_KEY, AUTH_TOKEN, request, pc, frame,
          calls, replies, response, health_bodies, threads>>

(***************************************************************************)
(* Bounds of the model.                                                    *)
(***************************************************************************)
\* largest numeric workflow id the backend hands out
MaxId == 2
\* longest `data` array in the backend's answer to GET /workflows
MaxWorkflows == 1
\* worker threads handling POST /mcp at the same time
NumThreads == 2

(***************************************************************************)
(* Python / JSON values.  A JSON document is a tagged record; a dict is a  *)
(* function from its keys, so `k in d` is k \in DOMAIN d.  Strings that    *)
(* the code slices (the Authorization header, AUTH_TOKEN) are character    *)
(* tuples tagged "chars".                                                  *)
(***************************************************************************)
None == [t |-> "null"]
JStr(s) == [t |-> "str", s |-> s]
JNum(n) == [t |-> "num", n |-> n]
JBool(b) == [t |-> "bool", b |-> b]
JArr(a) == [t |-> "arr", a |-> a]
JObj(d) == [t |-> "obj", d |-> d]
Text(c) == [t |-> "chars", c |-> c]
EmptyDict == [k \in {} |-> None]

\* bool(v) / `not v`
Truthy(v) ==
    CASE v.t = "null" -> FALSE
      [] v.t = "bool" -> v.b
      [] v.t = "num" -> v.n # 0
      [] v.t = "str" -> v.s # ""
      [] v.t = "chars" -> Len(v.c) > 0
      [] v.t = "arr" -> Len(v.a) > 0
      [] v.t = "obj" -> DOMAIN v.d # {}

\* type(v).__name__
PyType(v) ==
    CASE v.t = "null" -> "NoneType"
      [] v.t = "bool" -> "bool"
      [] v.t = "num" -> "int"
      [] v.t = "str" -> "str"
      [] v.t = "arr" -> "list"
      [] v.t = "obj" -> "dict"

\* str(v), as an f-string renders it
PyStr(v) ==
    CASE v.t = "null" -> "None"
      [] v.t = "bool" -> IF v.b THEN "True" ELSE "False"
      [] v.t = "num" -> ToString(v.n)
      [] v.t = "str" -> v.s
      [] v.t = "arr" -> "[...]"
      [] v.t = "obj" -> "{...}"

\* the characters of the JSON strings that occur as a whole request body
Chars(s) ==
    CASE s = "method" -> <<"m", "e", "t", "h", "o", "d">>
      [] s = "methods" -> <<"m", "e", "t", "h", "o", "d", "s">>
      [] s = "meth" -> <<"m", "e", "t", "h">>
      [] s = "" -> <<>>

\* str.startswith
StartsWith(c, prefix) ==
    /\ Len(c) >= Len(prefix)
    /\ SubSeq(c, 1, Len(prefix)) = prefix

\* `needle in haystack` for two strings
IsSubstring(needle, haystack) ==
    \E i \in 0..Len(haystack) :
        /\ i + Len(needle) <= Len(haystack)
        /\ SubSeq(haystack, i + 1, i + Len(needle)) = needle

\* outcomes of an expression: a value, or a raised exception with its str(e)
Return(v) == [ok |-> TRUE, val |-> v]
Raise(msg) == [ok |-> FALSE, exc |-> msg]

\* `key in v`
In(key, v) ==
    CASE v.t = "obj" -> Return(key \in DOMAIN v.d)
      [] v.t = "arr" -> Return(\E i \in DOMAIN v.a : v.a[i] = JStr(key))
      [] v.t = "str" -> Return(IsSubstring(Chars(key), Chars(v.s)))
      [] OTHER -> Raise(<<"argument of type '", PyType(v), "' is not iterable">>)

\* v[key], for a string key
GetItem(v, key) ==
    CASE v.t = "obj" ->
            IF key \in DOMAIN v.d THEN Return(v.d[key])
            ELSE Raise(<<"'", key, "'">>)
      [] v.t = "arr" ->
            Raise(<<"list indices must be integers or slices, not str">>)
      [] v.t = "str" -> Raise(<<"string indices must be integers">>)
      [] OTHER -> Raise(<<"'", PyType(v), "' object is not subscriptable">>)

\* v.get(key, default)
Get(v, key, default) ==
    IF v.t = "obj"
    THEN Return(IF key \in DOMAIN v.d THEN v.d[key] ELSE default)
    ELSE Raise(<<"'", PyType(v), "' object has no attribute 'get'">>)

(***************************************************************************)
(* Responses.  jsonify(body), status: the body is a record with exactly    *)
(* the keys of the dict the code builds.                                   *)
(***************************************************************************)
jsonify(body, status) == [status |-> status, body |-> body]
ErrorBody(msg) == [error |-> msg]
ContentBody(text) == [content |-> <<[type |-> "text", text |-> text]>>]

NoRequest == [route |-> "none"]
NoResponse == [status |-> 0, body |-> [none |-> TRUE]]

(***************************************************************************)
(* Configuration (lines 13-28) and authentication (lines 30-42).           *)
(***************************************************************************)
DefaultUrl == "http://n8n:5678"

\* os.getenv(name, default)
getenv(env, name, default) ==
    IF name \in DOMAIN env THEN env[name] ELSE default

Bearer == <<"B", "e", "a", "r", "e", "r", " ">>

authenticate_request_open(auth_header, token) ==
    IF ~Truthy(auth_header)
    THEN FALSE
    ELSE LET tok == IF StartsWith(auth_header.c, Bearer)
                    THEN SubSeq(auth_header.c, Len(Bearer) + 1,
                                Len(auth_header.c))
                    ELSE auth_header.c
         IN  tok = (IF token.t = "chars" THEN token.c ELSE <<>>)

authenticate_request_prefix(auth_header, token) ==
    IF ~Truthy(auth_header) \/ ~Truthy(token)
    THEN FALSE
    ELSE StartsWith(auth_header.c, Bearer) \/ auth_header.c = token.c

authenticate_request_either(auth_header, token) ==
    IF ~Truthy(auth_header) \/ ~Truthy(token)
    THEN FALSE
    ELSE \/ auth_header.c = token.c
         \/ /\ StartsWith(auth_header.c, Bearer)
            /\ SubSeq(auth_header.c, Len(Bearer) + 1, Len(auth_header.c))
                 = token.c

\* auth_header = request.headers.get('Authorization'); token = AUTH_TOKEN
authenticate_request(auth_header, token) ==
    IF ~Truthy(auth_header) \/ ~Truthy(token)
    THEN FALSE
    ELSE LET tok == IF StartsWith(auth_header.c, Bearer)
                    THEN SubSeq(auth_header.c, Len(Bearer) + 1,
                                Len(auth_header.c))
                    ELSE auth_header.c
         IN  tok = token.c

(***************************************************************************)
(* Backend client, make_n8n_request (lines 44-81).  It is split at the     *)
(* blocking requests.get/post/put: make_n8n_request is the part before the *)
(* call goes out, n8n_result the part after the backend replied.           *)
(***************************************************************************)
\* a reply body that is not JSON
NotJson == [t |-> "invalid"]

HttpReply(status, reason, text, json) ==
    [kind |-> "http", status |-> status, reason |-> reason, text |-> text,
     json |-> json]
TransportError(msg) == [kind |-> "transport", msg |-> msg]

make_n8n_request_unset_only(method, endpoint, data, key, url) ==
    IF key = None
    THEN Raise(<<"N8N_API_KEY not configured">>)
    ELSE Return([method |-> method,
                 url |-> <<url, "/api/v1">> \o endpoint,
                 api_key |-> key,
                 json |-> IF method \in {"POST", "PUT"} THEN data ELSE None])

\* Return(the outbound call), or the ValueError of line 47
make_n8n_request(method, endpoint, data, key, url) ==
    IF ~Truthy(key)
    THEN Raise(<<"N8N_API_KEY not configured">>)
    ELSE IF method \notin {"GET", "POST", "PUT", "DELETE"}
    THEN Raise(<<"Unsupported HTTP method: ", method>>)
    ELSE Return([method |-> method,
                 url |-> <<url, "/api/v1">> \o endpoint,
                 api_key |-> key,
                 json |-> IF method \in {"POST", "PUT"} THEN data ELSE None])

\* str(HTTPError) as response.raise_for_status() builds it: the status, the
\* reason phrase and the URL; response.text is logged (line 74), not raised
HTTPErrorText(call, reply) ==
    <<ToString(reply.status),
      IF reply.status < 500 THEN " Client Error: " ELSE " Server Error: ",
      reply.reason, " for url: ">> \o call.url

n8n_result_no_raise(call, reply) ==
    IF reply.kind = "transport"
    THEN Raise(reply.msg)
    ELSE IF reply.json = NotJson
    THEN Raise(<<"Expecting value: line 1 column 1 (char 0)">>)
    ELSE Return(reply.json)

\* lines 71-81: raise_for_status(), then response.json()
n8n_result(call, reply) ==
    IF reply.kind = "transport"
    THEN Raise(reply.msg)
    ELSE IF reply.status >= 400
    THEN Raise(HTTPErrorText(call, reply))
    ELSE IF reply.json = NotJson
    THEN Raise(<<"Expecting value: line 1 column 1 (char 0)">>)
    ELSE Return(reply.json)

(***************************************************************************)
(* What a handler does in one uninterrupted run: it answers, it blocks in  *)
(* a backend call, or it lets an exception escape to its caller.           *)
(***************************************************************************)
Respond(r) == [kind |-> "respond", response |-> r]
Block(at, call, locals) ==
    [kind |-> "call", pc |-> at, call |-> call, frame |-> locals]
Escape(msg) == [kind |-> "raise", exc |-> msg]

NoFrame == [none |-> TRUE]

(***************************************************************************)
(* handle_create_workflow (lines 184-246).                                 *)
(***************************************************************************)
Settings ==
    JObj([executionOrder |-> JStr("v1"),
          saveDataErrorExecution |-> JStr("all"),
          saveDataSuccessExecution |-> JStr("all"),
          saveManualExecutions |-> JBool(TRUE),
          saveExecutionProgress |-> JBool(TRUE)])

\* lines 237-246
create_failed(msg) ==
    jsonify(ContentBody(<<"Failed to create workflow: ">> \o msg), 500)

workflow_data_with_active(name, nodes, connections, should_activate) ==
    JObj([name |-> name, nodes |-> nodes, connections |-> connections,
          settings |-> Settings, active |-> should_activate])

\* lines 194-206
workflow_data(name, nodes, connections, should_activate) ==
    JObj([name |-> name, nodes |-> nodes, connections |-> connections,
          settings |-> Settings])

\* lines 186-211, up to the POST
handle_create_workflow(arguments, key, url) ==
    LET name == Get(arguments, "name", JStr("Untitled Workflow"))
        nodes == Get(arguments, "nodes", JArr(<<>>))
        connections == Get(arguments, "connections", JObj(EmptyDict))
        should_activate == Get(arguments, "active", JBool(FALSE))
    IN  IF ~name.ok
        THEN Respond(create_failed(name.exc))
        ELSE LET post == make_n8n_request("POST", <<"/workflows">>,
                             workflow_data(name.val, nodes.val,
                                 connections.val, should_activate.val),
                             key, url)
             IN  IF ~post.ok
                 THEN Respond(create_failed(post.exc))
                 ELSE Block("create_post", post.val,
                            [name |-> name.val,
                             should_activate |-> should_activate.val])

\* lines 226-235
create_finish(name, workflow_result) ==
    LET id == Get(workflow_result, "id", JStr("unknown"))
    IN  IF ~id.ok
        THEN Respond(create_failed(id.exc))
        ELSE Respond(jsonify(ContentBody(
                 <<"Successfully created workflow '", PyStr(name),
                   "' with ID: ", PyStr(id.val)>>), 200))

create_created_ignore_flag(locals, call, reply, key, url) ==
    LET created == n8n_result(call, reply)
    IN  IF ~created.ok
        THEN Respond(create_failed(created.exc))
        ELSE LET has_id == In("id", created.val)
             IN  IF ~has_id.ok
                 THEN Respond(create_failed(has_id.exc))
                 ELSE IF ~has_id.val
                 THEN create_finish(locals.name, created.val)
                 ELSE LET workflow_id == created.val.d["id"]
                          put == make_n8n_request("PUT",
                                     <<"/workflows/", PyStr(workflow_id)>>,
                                     JObj([active |-> JBool(TRUE)]), key, url)
                      IN  IF ~put.ok
                          THEN create_finish(locals.name, created.val)
                          ELSE Block("create_put", put.val,
                                     [name |-> locals.name,
                                      workflow_result |-> created.val])

\* lines 211-224, from the POST's return up to the PUT
create_created(locals, call, reply, key, url) ==
    LET created == n8n_result(call, reply)
    IN  IF ~created.ok
        THEN Respond(create_failed(created.exc))
        ELSE IF ~Truthy(locals.should_activate)
        THEN create_finish(locals.name, created.val)
        ELSE LET has_id == In("id", created.val)
             IN  IF ~has_id.ok
                 THEN Respond(create_failed(has_id.exc))
                 ELSE IF ~has_id.val
                 THEN create_finish(locals.name, created.val)
                 ELSE LET workflow_id == created.val.d["id"]
                          put == make_n8n_request("PUT",
                                     <<"/workflows/", PyStr(workflow_id)>>,
                                     JObj([active |-> JBool(TRUE)]), key, url)
                      IN  IF ~put.ok
                          THEN create_finish(locals.name, created.val)
                          ELSE Block("create_put", put.val,
                                     [name |-> locals.name,
                                      workflow_result |-> created.val])

create_activated_retry(locals, call, reply) ==
    LET updated == n8n_result(call, reply)
    IN  IF updated.ok
        THEN create_finish(locals.name, updated.val)
        ELSE Block("create_put", call, locals)

create_activated_fatal(locals, call, reply) ==
    LET updated == n8n_result(call, reply)
    IN  IF updated.ok
        THEN create_finish(locals.name, updated.val)
        ELSE Respond(create_failed(updated.exc))

create_activated_keep_created(locals, call, reply) ==
    create_finish(locals.name, locals.workflow_result)

\* lines 220-235, from the PUT's return
create_activated(locals, call, reply) ==
    LET updated == n8n_result(call, reply)
    IN  IF updated.ok
        THEN create_finish(locals.name, updated.val)
        ELSE create_finish(locals.name, locals.workflow_result)

(***************************************************************************)
(* handle_list_workflows (lines 248-284).                                  *)
(***************************************************************************)
\* lines 275-284
list_failed(msg) ==
    jsonify(ContentBody(<<"Failed to list workflows: ">> \o msg), 500)

\* lines 250-251, up to the GET
handle_list_workflows(key, url) ==
    LET get == make_n8n_request("GET", <<"/workflows">>, None, key, url)
    IN  IF ~get.ok
        THEN Respond(list_failed(get.exc))
        ELSE Block("list_get", get.val, NoFrame)

\* `for workflow in data`: the items, or the TypeError of a non-iterable
Iterate(data) ==
    CASE data.t = "arr" -> Return(data.a)
      [] data.t = "obj" ->
            IF DOMAIN data.d = {} THEN Return(<<>>)
            ELSE Return(<<JStr("key")>>)
      [] data.t = "str" ->
            IF data.s = "" THEN Return(<<>>) ELSE Return(<<JStr("c")>>)
      [] OTHER -> Raise(<<"'", PyType(data), "' object is not iterable">>)

\* lines 256-262 for one workflow, rendered as its line of lines 269-270
WorkflowLine(workflow) ==
    <<"- ", PyStr(Get(workflow, "name", None).val),
      " (ID: ", PyStr(Get(workflow, "id", None).val),
      ", Active: ", PyStr(Get(workflow, "active", JBool(FALSE)).val), ")">>

\* "\n".join(lines)
RECURSIVE JoinLines(_)
JoinLines(items) ==
    IF items = <<>> THEN <<>>
    ELSE IF Len(items) = 1 THEN WorkflowLine(items[1])
    ELSE WorkflowLine(items[1]) \o <<"\n">> \o JoinLines(Tail(items))

\* the first item of the loop of lines 255-262 whose .get raises
FirstNonDict(items) ==
    CHOOSE i \in DOMAIN items :
        /\ items[i].t # "obj"
        /\ \A j \in 1..(i - 1) : items[j].t = "obj"

\* lines 251-273, from the GET's return
list_returned(call, reply) ==
    LET workflows == n8n_result(call, reply)
    IN  IF ~workflows.ok
        THEN Respond(list_failed(workflows.exc))
        ELSE LET has_data == In("data", workflows.val)
             IN  IF ~has_data.ok
                 THEN Respond(list_failed(has_data.exc))
                 ELSE LET items == IF has_data.val
                                   THEN Iterate(GetItem(workflows.val,
                                                        "data").val)
                                   ELSE Return(<<>>)
                      IN  IF ~items.ok
                          THEN Respond(list_failed(items.exc))
                          ELSE IF \E i \in DOMAIN items.val :
                                      items.val[i].t # "obj"
                          THEN Respond(list_failed(
                                   Get(items.val[FirstNonDict(items.val)],
                                       "id", None).exc))
                          ELSE Respond(jsonify(ContentBody(
                                   <<"Found ", ToString(Len(items.val)),
                                     " workflows:\n">>
                                   \o JoinLines(items.val)), 200))

(***************************************************************************)
(* handle_get_workflow (lines 286-318).                                    *)
(***************************************************************************)
\* lines 309-318
get_failed(msg) ==
    jsonify(ContentBody(<<"Failed to get workflow: ">> \o msg), 500)

handle_get_workflow_none_only(arguments, key, url) ==
    LET workflow_id == Get(arguments, "id", None)
    IN  IF ~workflow_id.ok
        THEN Respond(get_failed(workflow_id.exc))
        ELSE IF workflow_id.val = None
        THEN Respond(jsonify(ErrorBody(<<"Workflow ID is required">>), 400))
        ELSE LET get == make_n8n_request("GET",
                            <<"/workflows/", PyStr(workflow_id.val)>>,
                            None, key, url)
             IN  IF ~get.ok
                 THEN Respond(get_failed(get.exc))
                 ELSE Block("get_get", get.val, NoFrame)

\* lines 288-293, up to the GET
handle_get_workflow(arguments, key, url) ==
    LET workflow_id == Get(arguments, "id", None)
    IN  IF ~workflow_id.ok
        THEN Respond(get_failed(workflow_id.exc))
        ELSE IF ~Truthy(workflow_id.val)
        THEN Respond(jsonify(ErrorBody(<<"Workflow ID is required">>), 400))
        ELSE LET get == make_n8n_request("GET",
                            <<"/workflows/", PyStr(workflow_id.val)>>,
                            None, key, url)
             IN  IF ~get.ok
                 THEN Respond(get_failed(get.exc))
                 ELSE Block("get_get", get.val, NoFrame)

\* len(v)
PyLen(v) ==
    CASE v.t = "arr" -> Return(Len(v.a))
      [] v.t = "obj" -> Return(Cardinality(DOMAIN v.d))
      [] v.t = "str" -> Return(IF v.s = "" THEN 0 ELSE 1)
      [] OTHER -> Raise(<<"object of type '", PyType(v), "' has no len()">>)

\* lines 293-307, from the GET's return
get_returned(call, reply) ==
    LET workflow == n8n_result(call, reply)
    IN  IF ~workflow.ok
        THEN Respond(get_failed(workflow.exc))
        ELSE LET name == Get(workflow.val, "name", JStr("Unknown"))
             IN  IF ~name.ok
                 THEN Respond(get_failed(name.exc))
                 ELSE LET nodes == PyLen(Get(workflow.val, "nodes",
                                             JArr(<<>>)).val)
                      IN  IF ~nodes.ok
                          THEN Respond(get_failed(nodes.exc))
                          ELSE Respond(jsonify(ContentBody(
                               <<"Workflow '", PyStr(name.val), "' details:\n",
                                 "ID: ", PyStr(Get(workflow.val, "id",
                                                   None).val), "\n",
                                 "Active: ", PyStr(Get(workflow.val, "active",
                                                   JBool(FALSE)).val), "\n",
                                 "Nodes: ", ToString(nodes.val), "\n",
                                 "Created: ", PyStr(Get(workflow.val,
                                                   "createdAt", None).val), "\n",
                                 "Updated: ", PyStr(Get(workflow.val,
                                                   "updatedAt", None).val)>>),
                               200))

(***************************************************************************)
(* handle_tools_list (lines 116-157) and handle_tool_call (lines 159-182). *)
(***************************************************************************)
Tool(name, required) == [name |-> name, required |-> required]

handle_tools_list_with_delete ==
    Respond(jsonify(
        [tools |-> <<Tool("n8n_create_workflow",
                          <<"name", "nodes", "connections">>),
                     Tool("n8n_list_workflows", <<>>),
                     Tool("n8n_get_workflow", <<"id">>),
                     Tool("n8n_delete_workflow", <<"id">>)>>], 200))

\* lines 116-157: the three tools with their names and required arguments
handle_tools_list ==
    Respond(jsonify(
        [tools |-> <<Tool("n8n_create_workflow",
                          <<"name", "nodes", "connections">>),
                     Tool("n8n_list_workflows", <<>>),
                     Tool("n8n_get_workflow", <<"id">>)>>], 200))

handle_tool_call_default_create(mcp_data, key, url) ==
    IF "params" \notin DOMAIN mcp_data.d
    THEN handle_create_workflow(JObj(EmptyDict), key, url)
    ELSE LET tool_name == Get(mcp_data.d["params"], "name", None)
             arguments == Get(mcp_data.d["params"], "arguments",
                              JObj(EmptyDict))
         IN  IF ~tool_name.ok
             THEN Escape(tool_name.exc)
             ELSE IF tool_name.val = JStr("n8n_list_workflows")
             THEN handle_list_workflows(key, url)
             ELSE IF tool_name.val = JStr("n8n_get_workflow")
             THEN handle_get_workflow(arguments.val, key, url)
             ELSE handle_create_workflow(arguments.val, key, url)

\* mcp_data is the dict that held 'method'
handle_tool_call(mcp_data, key, url) ==
    IF "params" \notin DOMAIN mcp_data.d
    THEN Respond(jsonify(ErrorBody(<<"Missing params in tool call">>), 400))
    ELSE LET tool_name == Get(mcp_data.d["params"], "name", None)
             arguments == Get(mcp_data.d["params"], "arguments",
                              JObj(EmptyDict))
         IN  IF ~tool_name.ok
             THEN Escape(tool_name.exc)
             ELSE IF tool_name.val = JStr("n8n_create_workflow")
             THEN handle_create_workflow(arguments.val, key, url)
             ELSE IF tool_name.val = JStr("n8n_list_workflows")
             THEN handle_list_workflows(key, url)
             ELSE IF tool_name.val = JStr("n8n_get_workflow")
             THEN handle_get_workflow(arguments.val, key, url)
             ELSE Respond(jsonify(ErrorBody(
                      <<"Unknown tool: ", PyStr(tool_name.val)>>), 400))

(***************************************************************************)
(* handle_mcp_request (lines 83-114).                                      *)
(***************************************************************************)
\* a body that is not JSON, and no body at all
Malformed == [t |-> "malformed"]
EmptyBody == [t |-> "empty"]

\* request.get_json(): the parsed document, or werkzeug's BadRequest
get_json(body) ==
    IF body \in {Malformed, EmptyBody}
    THEN Raise(<<"400 Bad Request: The browser (or proxy) sent a request ",
                 "that this server could not understand.">>)
    ELSE Return(body)

internal_error_bad_gateway(msg) == jsonify(ErrorBody(msg), 502)

\* lines 112-114
internal_error(msg) == jsonify(ErrorBody(msg), 500)

route_method_prefix(mcp_data, key, url) ==
    LET method == mcp_data.d["method"]
    IN  IF method = JStr("tools/list")
        THEN handle_tools_list
        ELSE IF method.t = "str"
        THEN handle_tool_call(mcp_data, key, url)
        ELSE Respond(jsonify(ErrorBody(
                 <<"Unknown method: ", PyStr(method)>>), 400))

\* lines 99-107: mcp_data is a dict holding 'method'
route_method(mcp_data, key, url) ==
    LET method == mcp_data.d["method"]
    IN  IF method = JStr("tools/list")
        THEN handle_tools_list
        ELSE IF method = JStr("tools/call")
        THEN handle_tool_call(mcp_data, key, url)
        ELSE Respond(jsonify(ErrorBody(
                 <<"Unknown method: ", PyStr(method)>>), 400))

\* lines 93-114: the authenticated part of the handler
dispatch(body, key, url) ==
    LET mcp_data == get_json(body)
    IN  IF ~mcp_data.ok
        THEN Respond(internal_error(mcp_data.exc))
        ELSE LET has_method == In("method", mcp_data.val)
             IN  IF ~has_method.ok
                 THEN Respond(internal_error(has_method.exc))
                 ELSE IF ~has_method.val
                 THEN Respond(jsonify(ErrorBody(
                          <<"Invalid MCP request format">>), 400))
                 ELSE LET method == GetItem(mcp_data.val, "method")
                      IN  IF ~method.ok
                          THEN Respond(internal_error(method.exc))
                          ELSE LET step == route_method(mcp_data.val, key, url)
                               IN  IF step.kind = "raise"
                                   THEN Respond(internal_error(step.exc))
                                   ELSE step

\* request.headers.get('Authorization')
AuthorizationOf(req) ==
    IF "Authorization" \in DOMAIN req.headers
    THEN req.headers["Authorization"]
    ELSE None

\* lines 86-114 for one request, with the configuration init_config loaded
handle(req, token, key, url) ==
    IF ~authenticate_request(AuthorizationOf(req), token)
    THEN Respond(jsonify(ErrorBody(<<"Unauthorized">>), 401))
    ELSE dispatch(req.body, key, url)

(***************************************************************************)
(* The inputs: environments, requests and backend replies.                 *)
(***************************************************************************)
Absent == [t |-> "absent"]

\* the dict of the pairs whose value is not Absent
MkDict(pairs) ==
    [k \in {x \in DOMAIN pairs : pairs[x] # Absent} |-> pairs[k]]

Secret == <<"s">>

EnvTokens == {Absent, Text(<<>>), Text(Secret), Text(Bearer \o Secret)}
EnvKeys == {Absent, JStr(""), JStr("k")}
Environments ==
    {MkDict([AUTH_TOKEN |-> tok, N8N_API_KEY |-> key]) :
        tok \in EnvTokens, key \in EnvKeys}

AuthorizationValues ==
    {Absent, Text(<<>>), Text(Bearer), Text(Secret), Text(Bearer \o Secret),
     Text(Bearer \o <<"S">>), Text(Bearer \o Bearer \o Secret)}

CreateArguments(active) ==
    JObj(MkDict([name |-> JStr("Test"), nodes |-> JArr(<<>>),
                 connections |-> JObj(EmptyDict), active |-> active]))

\* the arguments tried with each tool name
ArgumentValues(name) ==
    {Absent, None}
    \cup (IF name = JStr("n8n_create_workflow")
          THEN {JObj(EmptyDict), JObj([active |-> JBool(TRUE)])}
               \cup {CreateArguments(a) :
                       a \in {Absent, None, JBool(FALSE), JBool(TRUE)}}
          ELSE IF name = JStr("n8n_get_workflow")
          THEN {JObj(EmptyDict), JObj([id |-> JStr("")]),
                JObj([id |-> JStr("w7")])}
          ELSE {})

ToolNameValues ==
    {Absent, JStr("n8n_create_workflow"), JStr("n8n_list_workflows"),
     JStr("n8n_get_workflow"), JStr("n8n_delete_workflow"),
     JStr("N8N_CREATE_WORKFLOW")}

ParamsValues ==
    {Absent, None, JArr(<<>>)}
    \cup UNION {{JObj(MkDict([name |-> n, arguments |-> a])) :
                    a \in ArgumentValues(n)} : n \in ToolNameValues}

Envelope(method, params) ==
    JObj(MkDict([method |-> method, params |-> params]))

Bodies ==
    {Malformed, EmptyBody, None, JNum(5), JStr("meth"), JStr("methods"),
     JArr(<<>>), JArr(<<JStr("method")>>)}
    \cup {Envelope(Absent, p) : p \in {Absent, JObj(EmptyDict)}}
    \cup {Envelope(m, Absent) :
            m \in {None, JStr("initialize"), JStr("tools/list"),
                   JStr("Tools/List"), JStr("resources/list")}}
    \cup {Envelope(JStr("tools/call"), p) : p \in ParamsValues}

Requests ==
    {[route |-> "POST /mcp",
      headers |-> MkDict([Authorization |-> a]),
      body |-> b] : a \in AuthorizationValues, b \in Bodies}

WorkflowIds == {JNum(i) : i \in 1..MaxId} \cup {JStr("w7")}

Workflows ==
    {JObj([id |-> id, name |-> JStr("wf"), active |-> a]) :
        id \in WorkflowIds, a \in {JBool(FALSE), JBool(TRUE)}}
    \cup {JObj([name |-> JStr("wf")])}

RECURSIVE SeqsUpTo(_, _)
SeqsUpTo(S, n) ==
    IF n = 0 THEN {<<>>}
    ELSE SeqsUpTo(S, n - 1)
         \cup {Append(s, x) : s \in {q \in SeqsUpTo(S, n - 1) : Len(q) = n - 1},
                              x \in S}

ReplyDocuments ==
    Workflows
    \cup {None, NotJson, JObj([data |-> None])}
    \cup {JObj([data |-> JArr(a)]) :
            a \in SeqsUpTo(Workflows \cup {None}, MaxWorkflows)}

Replies ==
    {HttpReply(200, "OK", "", d) : d \in ReplyDocuments}
    \cup {HttpReply(500, "Internal Server Error", "boom", NotJson),
          HttpReply(404, "Not Found", "not found",
                    JObj([message |-> JStr("not found")])),
          TransportError(<<"Connection refused">>)}

(***************************************************************************)
(* A worker thread of the concurrent server: where it is in the handler    *)
(* (pc), its request, the values it read from the module globals, the      *)
(* backend call it is blocked in (at) and what it did for its request.     *)
(***************************************************************************)
Threads == 1..NumThreads

Unread == [t |-> "unread"]

IdleThread ==
    [pc |-> "idle", req |-> NoRequest, token |-> Unread, key |-> Unread,
     url |-> Unread, at |-> "none", frame |-> NoFrame, calls |-> <<>>,
     replies |-> <<>>, response |-> NoResponse]

(***************************************************************************)
(* The state machine.                                                      *)
(***************************************************************************)
Init ==
    /\ environ \in Environments
    /\ N8N_API_URL = None
    /\ N8N_API_KEY = None
    /\ AUTH_TOKEN = None
    /\ request = NoRequest
    /\ pc = "idle"
    /\ frame = NoFrame
    /\ calls = <<>>
    /\ replies = <<>>
    /\ response = NoResponse
    /\ health_bodies = {}
    /\ threads = [t \in Threads |-> IdleThread]

\* what one run of a handler leaves behind
Apply(step) ==
    LET s == IF step.kind = "raise"
             THEN Respond(internal_error(step.exc))
             ELSE step
    IN  IF s.kind = "respond"
        THEN /\ response' = s.response
             /\ pc' = "idle"
             /\ frame' = NoFrame
             /\ calls' = calls
        ELSE /\ response' = NoResponse
             /\ pc' = s.pc
             /\ frame' = s.frame
             /\ calls' = Append(calls, s.call)

\* POST /mcp arrives: init_config (lines 18-28), then lines 88-114 up to the
\* response or the first backend call
handle_mcp_request ==
    /\ pc = "idle"
    /\ \E req \in Requests :
        LET url == JStr(getenv(environ, "N8N_API_URL", DefaultUrl))
            key == getenv(environ, "N8N_API_KEY", None)
            token == getenv(environ, "AUTH_TOKEN", None)
            step == handle(req, token, key, url.s)
        IN  /\ N8N_API_URL' = url
            /\ N8N_API_KEY' = key
            /\ AUTH_TOKEN' = token
            /\ request' = req
            /\ replies' = <<>>
            /\ IF step.kind = "respond"
               THEN /\ response' = step.response
                    /\ pc' = "idle"
                    /\ frame' = NoFrame
                    /\ calls' = <<>>
               ELSE /\ response' = NoResponse
                    /\ pc' = step.pc
                    /\ frame' = step.frame
                    /\ calls' = <<step.call>>
    /\ UNCHANGED <<environ, health_bodies, threads>>

\* the backend answers the POST of handle_create_workflow
create_post_returns ==
    /\ pc = "create_post"
    /\ \E reply \in Replies :
        /\ replies' = Append(replies, reply)
        /\ Apply(create_created(frame, calls[Len(calls)], reply,
                                N8N_API_KEY, N8N_API_URL.s))
    /\ UNCHANGED <<environ, N8N_API_URL, N8N_API_KEY, AUTH_TOKEN, request,
                   health_bodies, threads>>

\* the backend answers the PUT of handle_create_workflow
create_put_returns ==
    /\ pc = "create_put"
    /\ \E reply \in Replies :
        /\ replies' = Append(replies, reply)
        /\ Apply(create_activated(frame, calls[Len(calls)], reply))
    /\ UNCHANGED <<environ, N8N_API_URL, N8N_API_KEY, AUTH_TOKEN, request,
                   health_bodies, threads>>

\* the backend answers the GET of handle_list_workflows
list_get_returns ==
    /\ pc = "list_get"
    /\ \E reply \in Replies :
        /\ replies' = Append(replies, reply)
        /\ Apply(list_returned(calls[Len(calls)], reply))
    /\ UNCHANGED <<environ, N8N_API_URL, N8N_API_KEY, AUTH_TOKEN, request,
                   health_bodies, threads>>

\* the backend answers the GET of handle_get_workflow
get_get_returns ==
    /\ pc = "get_get"
    /\ \E reply \in Replies :
        /\ replies' = Append(replies, reply)
        /\ Apply(get_returned(calls[Len(calls)], reply))
    /\ UNCHANGED <<environ, N8N_API_URL, N8N_API_KEY, AUTH_TOKEN, request,
                   health_bodies, threads>>

Next ==
    \/ handle_mcp_request
    \/ create_post_returns
    \/ create_put_returns
    \/ list_get_returns
    \/ get_get_returns

Spec == Init /\ [][Next]_vars

\* ... with a backend that answers every call, by a reply or by a transport
\* error
SpecLive ==
    /\ Spec
    /\ WF_vars(create_post_returns)
    /\ WF_vars(create_put_returns)
    /\ WF_vars(list_get_returns)
    /\ WF_vars(get_get_returns)

(***************************************************************************)
(* GET /health, health_check (lines 320-328).  It reads the module globals *)
(* as they are: it does not call init_config.  The route needs no          *)
(* authentication and is served whatever POST /mcp is doing.               *)
(***************************************************************************)
health_body(key, token) ==
    [status |-> "healthy", service |-> "n8n-mcp-fixed",
     n8n_configured |-> Truthy(key), auth_configured |-> Truthy(token)]

health_check ==
    /\ health_bodies' = health_bodies \cup {health_body(N8N_API_KEY, AUTH_TOKEN)}
    /\ UNCHANGED <<environ, N8N_API_URL, N8N_API_KEY, AUTH_TOKEN, request, pc,
                   frame, calls, replies, response, threads>>

NextHealth ==
    \/ Next
    \/ health_check

\* POST /mcp and GET /health served by the same process
SpecHealth == Init /\ [][NextHealth]_vars

(***************************************************************************)
(* POST /mcp served by several worker threads at once.  The threads share  *)
(* the module globals; a thread can be preempted between any two of the    *)
(* assignments of init_config (lines 22-24) and between any two reads of a *)
(* global in authenticate_request (lines 33, 42) and make_n8n_request      *)
(* (lines 46, 49, 51).  Everything else of the handler touches only the    *)
(* thread's own request and locals.                                        *)
(***************************************************************************)
\* the module globals (lines 14-16) as one record
Globals == [url |-> N8N_API_URL, key |-> N8N_API_KEY, token |-> AUTH_TOKEN]

\* what init_config leaves in the globals when it has run through
Loaded ==
    [url |-> JStr(getenv(environ, "N8N_API_URL", DefaultUrl)),
     key |-> getenv(environ, "N8N_API_KEY", None),
     token |-> getenv(environ, "AUTH_TOKEN", None)]

init_config_reset(i, g, env) ==
    IF i = 1
    THEN [url |-> JStr(getenv(env, "N8N_API_URL", DefaultUrl)),
          key |-> None, token |-> None]
    ELSE IF i = 2
    THEN [g EXCEPT !.key = getenv(env, "N8N_API_KEY", None)]
    ELSE [g EXCEPT !.token = getenv(env, "AUTH_TOKEN", None)]

\* the globals after the i-th assignment of init_config (lines 22, 23, 24)
init_config(i, g, env) ==
    IF i = 1
    THEN [g EXCEPT !.url = JStr(getenv(env, "N8N_API_URL", DefaultUrl))]
    ELSE IF i = 2
    THEN [g EXCEPT !.key = getenv(env, "N8N_API_KEY", None)]
    ELSE [g EXCEPT !.token = getenv(env, "AUTH_TOKEN", None)]

\* lines 37-40: the token the header presents
presented_token(auth_header) ==
    IF StartsWith(auth_header.c, Bearer)
    THEN SubSeq(auth_header.c, Len(Bearer) + 1, Len(auth_header.c))
    ELSE auth_header.c

\* line 42, token == AUTH_TOKEN, with the value AUTH_TOKEN has at that read
token_equals(tok, token) == token.t = "chars" /\ tok = token.c

\* the handler's step once the backend answered the call it blocked in
returned(at, locals, call, reply, key, url) ==
    CASE at = "create_post" -> create_created(locals, call, reply, key, url)
      [] at = "create_put" -> create_activated(locals, call, reply)
      [] at = "list_get" -> list_returned(call, reply)
      [] at = "get_get" -> get_returned(call, reply)

\* the authenticated handler of thread th from where it stands, up to its
\* response or its next backend call, with `key` and `url` as the values
\* make_n8n_request reads
resume(th, key, url) ==
    IF th.calls = <<>>
    THEN dispatch(th.req.body, key, url)
    ELSE returned(th.at, th.frame, th.calls[Len(th.calls)],
                  th.replies[Len(th.replies)], key, url)

\* thread th enters make_n8n_request before it answers: it would go out to
\* the backend if the key it is about to read were set
AnyKey == JStr("any")
enters_make_n8n_request(th) == resume(th, AnyKey, "").kind = "call"

\* thread th after the step its handler took
advance(th, step) ==
    IF step.kind = "respond"
    THEN [th EXCEPT !.pc = "done", !.response = step.response,
                    !.at = "none", !.frame = NoFrame]
    ELSE [th EXCEPT !.pc = "blocked", !.at = step.pc, !.frame = step.frame,
                    !.calls = Append(@, step.call)]

\* thread th goes on after authentication, or after a backend reply
proceed(th) ==
    IF enters_make_n8n_request(th)
    THEN [th EXCEPT !.pc = "key_46"]
    ELSE advance(th, resume(th, AnyKey, ""))

ConcRequests ==
    {[route |-> "POST /mcp",
      headers |-> MkDict([Authorization |-> a]),
      body |-> b] :
        a \in {Absent, Text(Bearer \o Secret)},
        b \in {Envelope(JStr("tools/list"), Absent),
               Envelope(JStr("tools/call"),
                        JObj([name |-> JStr("n8n_list_workflows")])),
               Envelope(JStr("tools/call"),
                        JObj([name |-> JStr("n8n_create_workflow"),
                              arguments |-> CreateArguments(JBool(TRUE))]))}}

ConcReplies ==
    {HttpReply(200, "OK", "", JObj([id |-> JNum(1), name |-> JStr("wf"),
                                    active |-> JBool(FALSE)])),
     HttpReply(500, "Internal Server Error", "boom", NotJson)}

\* a worker thread picks up a POST /mcp
conc_receive ==
    /\ \E t \in Threads, req \in ConcRequests :
        /\ threads[t].pc \in {"idle", "done"}
        /\ threads' = [threads EXCEPT
                          ![t] = [IdleThread EXCEPT !.pc = "init_1",
                                                    !.req = req]]
    /\ UNCHANGED <<environ, N8N_API_URL, N8N_API_KEY, AUTH_TOKEN, request, pc,
                   frame, calls, replies, response, health_bodies>>

\* one assignment of init_config (line 22, 23 or 24)
conc_init_config ==
    /\ \E t \in Threads, i \in 1..3 :
        /\ threads[t].pc = <<"init_1", "init_2", "init_3">>[i]
        /\ LET g == init_config(i, Globals, environ)
           IN  /\ N8N_API_URL' = g.url
               /\ N8N_API_KEY' = g.key
               /\ AUTH_TOKEN' = g.token
        /\ threads' = [threads EXCEPT
                          ![t].pc = <<"init_2", "init_3", "auth_33">>[i]]
    /\ UNCHANGED <<environ, request, pc, frame, calls, replies, response,
                   health_bodies>>

\* one read of AUTH_TOKEN in authenticate_request: line 33, then line 42
conc_authenticate ==
    /\ \E t \in Threads :
        LET th == threads[t]
            auth_header == AuthorizationOf(th.req)
            unauthorized ==
                advance(th, Respond(jsonify(ErrorBody(<<"Unauthorized">>),
                                            401)))
        IN  \/ /\ th.pc = "auth_33"
               /\ threads' = [threads EXCEPT ![t] =
                      IF ~Truthy(auth_header)
                      THEN unauthorized
                      ELSE IF ~Truthy(AUTH_TOKEN)
                      THEN [unauthorized EXCEPT !.token = AUTH_TOKEN]
                      ELSE [th EXCEPT !.pc = "auth_42",
                                      !.token = AUTH_TOKEN]]
            \/ /\ th.pc = "auth_42"
               /\ threads' = [threads EXCEPT ![t] =
                      IF token_equals(presented_token(auth_header), AUTH_TOKEN)
                      THEN proceed([th EXCEPT !.token = AUTH_TOKEN])
                      ELSE [unauthorized EXCEPT !.token = AUTH_TOKEN]]
    /\ UNCHANGED <<environ, N8N_API_URL, N8N_API_KEY, AUTH_TOKEN, request, pc,
                   frame, calls, replies, response, health_bodies>>

\* one read of a global in make_n8n_request: N8N_API_KEY at line 46,
\* N8N_API_URL at line 49, N8N_API_KEY at line 51; the call goes out with
\* the URL of line 49 and the key of line 51
conc_make_n8n_request ==
    /\ \E t \in Threads :
        LET th == threads[t]
        IN  \/ /\ th.pc = "key_46"
               /\ threads' = [threads EXCEPT ![t] =
                      IF ~Truthy(N8N_API_KEY)
                      THEN advance([th EXCEPT !.key = N8N_API_KEY],
                                   resume(th, N8N_API_KEY, ""))
                      ELSE [th EXCEPT !.pc = "url_49",
                                      !.key = N8N_API_KEY]]
            \/ /\ th.pc = "url_49"
               /\ threads' = [threads EXCEPT ![t] =
                      [th EXCEPT !.pc = "key_51", !.url = N8N_API_URL]]
            \/ /\ th.pc = "key_51"
               /\ LET step == resume(th, th.key, PyStr(th.url))
                  IN  threads' = [threads EXCEPT ![t] =
                          advance([th EXCEPT !.key = N8N_API_KEY],
                                  [step EXCEPT
                                      !.call.api_key = N8N_API_KEY])]
    /\ UNCHANGED <<environ, N8N_API_URL, N8N_API_KEY, AUTH_TOKEN, request, pc,
                   frame, calls, replies, response, health_bodies>>

\* the backend answers the call a thread is blocked in
conc_backend_returns ==
    /\ \E t \in Threads, reply \in ConcReplies :
        /\ threads[t].pc = "blocked"
        /\ threads' = [threads EXCEPT ![t] =
               proceed([threads[t] EXCEPT !.replies = Append(@, reply)])]
    /\ UNCHANGED <<environ, N8N_API_URL, N8N_API_KEY, AUTH_TOKEN, request, pc,
                   frame, calls, replies, response, health_bodies>>

NextConc ==
    \/ conc_receive
    \/ conc_init_config
    \/ conc_authenticate
    \/ conc_make_n8n_request
    \/ conc_backend_returns

\* POST /mcp requests handled concurrently
SpecConc == Init /\ [][NextConc]_vars

(***************************************************************************)
(* Vocabulary of the properties.                                           *)
(***************************************************************************)
\* a POST /mcp has arrived (it is being handled, or was the last handled)
IsMcpPost == request # NoRequest /\ request.route = "POST /mcp"

\* the response to `request` has been sent
Answered == IsMcpPost /\ pc = "idle"

\* the gateway token the environment configures, None when unset
ConfiguredToken == getenv(environ, "AUTH_TOKEN", None)

\* the header value with one leading "Bearer " removed
Stripped(c) ==
    IF StartsWith(c, Bearer) THEN SubSeq(c, Len(Bearer) + 1, Len(c)) ELSE c

\* the header is absent, or its stripped value is not the configured token
HeaderMismatch ==
    \/ "Authorization" \notin DOMAIN request.headers
    \/ ConfiguredToken = None
    \/ Stripped(request.headers["Authorization"].c) # ConfiguredToken.c

\* the request passed authenticate_request
Authenticated ==
    /\ IsMcpPost
    /\ authenticate_request(AuthorizationOf(request), ConfiguredToken)

Unauthorized401 ==
    /\ response.status = 401
    /\ response.body = [error |-> <<"Unauthorized">>]

\* the JSON-RPC error code of a response body, 0 when it carries none
ErrorCodeOf(resp) ==
    IF "code" \in DOMAIN resp.body THEN resp.body.code ELSE 0

\* the text of a {content: [{type: "text", text: ...}]} body
ContentText(resp) ==
    IF "content" \in DOMAIN resp.body THEN resp.body.content[1].text ELSE <<>>

\* a piece of text occurs in a rendered text
Contains(text, piece) == \E i \in DOMAIN text : text[i] = piece

\* the request body is a dict (a JSON object)
BodyIsDict == IsMcpPost /\ request.body.t = "obj"

\* the envelope's method is m
MethodIs(m) ==
    /\ BodyIsDict
    /\ "method" \in DOMAIN request.body.d
    /\ request.body.d["method"] = JStr(m)

\* a tools/call whose params is a mapping
ToolCall ==
    /\ MethodIs("tools/call")
    /\ "params" \in DOMAIN request.body.d
    /\ request.body.d["params"].t = "obj"

\* ... naming the tool `name`
ToolCallOf(name) ==
    /\ ToolCall
    /\ "name" \in DOMAIN request.body.d["params"].d
    /\ request.body.d["params"].d["name"] = JStr(name)

\* ... with a mapping as its arguments
ArgumentsOf == request.body.d["params"].d["arguments"]
HasArguments ==
    /\ ToolCall
    /\ "arguments" \in DOMAIN request.body.d["params"].d
    /\ ArgumentsOf.t = "obj"

\* the i-th backend call was answered with a workflow object holding an id
Accepted(i) ==
    /\ Len(replies) >= i
    /\ replies[i].kind = "http"
    /\ replies[i].status < 400
    /\ replies[i].json.t = "obj"
    /\ "id" \in DOMAIN replies[i].json.d

\* the i-th backend call failed: HTTP >= 400 or a transport error
Failed(i) ==
    /\ Len(replies) >= i
    /\ \/ replies[i].kind = "transport"
       \/ replies[i].kind = "http" /\ replies[i].status >= 400

IsCreatePost(call) ==
    /\ call.method = "POST"
    /\ call.url = <<N8N_API_URL.s, "/api/v1", "/workflows">>

(***************************************************************************)
(* C1.  A POST /mcp whose Authorization header is absent, or whose value   *)
(* (after stripping one leading "Bearer ") differs from the configured     *)
(* gateway token, is answered 401 {error: "Unauthorized"} whatever the     *)
(* body is, and no backend call is issued.                                 *)
(***************************************************************************)
C1_UnauthorizedIs401 ==
    (IsMcpPost /\ HeaderMismatch)
        => /\ pc = "idle"
           /\ Unauthorized401
           /\ calls = <<>>

\* a wrong token on a malformed body, with a token configured
C1_Witness ==
    /\ IsMcpPost
    /\ ConfiguredToken = Text(Secret)
    /\ AuthorizationOf(request) = Text(Bearer \o <<"S">>)
    /\ request.body = Malformed
    /\ Unauthorized401

(***************************************************************************)
(* C2.  Fail-closed: with AUTH_TOKEN unset or empty every POST /mcp is     *)
(* answered 401, for every Authorization value (the empty value and the    *)
(* bare "Bearer " included); nothing is dispatched, no backend call made.  *)
(***************************************************************************)
C2_FailClosed ==
    (~Truthy(ConfiguredToken))
        => /\ pc = "idle"
           /\ calls = <<>>
           /\ IsMcpPost => Unauthorized401

\* the bare prefix against an empty token, on a well-formed tool call
C2_Witness ==
    /\ IsMcpPost
    /\ ConfiguredToken = Text(<<>>)
    /\ AuthorizationOf(request) = Text(Bearer)
    /\ ToolCallOf("n8n_list_workflows")
    /\ "N8N_API_KEY" \in DOMAIN environ
    /\ Unauthorized401

(***************************************************************************)
(* Vocabulary of the create-workflow properties.                           *)
(***************************************************************************)
\* the arguments handle_tool_call passes on (default {})
PassedArguments ==
    IF "arguments" \in DOMAIN request.body.d["params"].d
    THEN ArgumentsOf
    ELSE JObj(EmptyDict)

\* an authenticated tools/call of n8n_create_workflow with mapping arguments
CreateCall ==
    /\ Authenticated
    /\ ToolCallOf("n8n_create_workflow")
    /\ PassedArguments.t = "obj"

ActiveRequested ==
    /\ "active" \in DOMAIN PassedArguments.d
    /\ PassedArguments.d["active"] = JBool(TRUE)

ActiveNotRequested ==
    \/ "active" \notin DOMAIN PassedArguments.d
    \/ PassedArguments.d["active"] = JBool(FALSE)

RequestedName ==
    IF "name" \in DOMAIN PassedArguments.d
    THEN PassedArguments.d["name"]
    ELSE JStr("Untitled Workflow")

IsActivationPut(call, id) ==
    /\ call.method = "PUT"
    /\ call.url = <<N8N_API_URL.s, "/api/v1", "/workflows/", PyStr(id)>>
    /\ call.json = JObj([active |-> JBool(TRUE)])

(***************************************************************************)
(* C3.  An authenticated n8n_create_workflow call that does not request    *)
(* activation (active absent or false) issues exactly one backend call, a  *)
(* POST to the workflow-creation endpoint whose payload has no `active`    *)
(* key; when the backend accepts it, the response is a 200 success whose   *)
(* text contains the requested name and the id the backend returned.       *)
(***************************************************************************)
C3_CreateWithoutActivation ==
    (CreateCall /\ ActiveNotRequested)
        => /\ pc # "create_put"
           /\ Len(calls) <= 1
           /\ \A i \in DOMAIN calls :
                /\ IsCreatePost(calls[i])
                /\ calls[i].json.t = "obj"
                /\ "active" \notin DOMAIN calls[i].json.d
                /\ calls[i].json.d["name"] = RequestedName
           /\ (Answered /\ Accepted(1))
                => /\ Len(calls) = 1
                   /\ response.status = 200
                   /\ "error" \notin DOMAIN response.body
                   /\ ContentText(response)[1] = "Successfully created workflow '"
                   /\ Contains(ContentText(response), PyStr(RequestedName))
                   /\ Contains(ContentText(response),
                               PyStr(replies[1].json.d["id"]))

\* {name: "Test", nodes: [], connections: {}} created as workflow 2
C3_Witness ==
    /\ CreateCall
    /\ PassedArguments = CreateArguments(Absent)
    /\ Answered
    /\ Accepted(1)
    /\ replies[1].json.d["id"] = JNum(2)
    /\ Len(calls) = 1
    /\ response.status = 200
    /\ Contains(ContentText(response), "Test")
    /\ Contains(ContentText(response), "2")

(***************************************************************************)
(* C4.  An authenticated n8n_create_workflow call with active=true whose   *)
(* POST is accepted (an id is returned) and whose activation PUT fails     *)
(* (HTTP >= 400 or transport error) is still answered 200 with the id of   *)
(* the created workflow and no error; exactly two backend calls occur,     *)
(* the POST and then, after the POST has returned, the PUT.                *)
(***************************************************************************)
C4_ActivationFailureIsNotFatal ==
    (CreateCall /\ ActiveRequested)
        => /\ Len(calls) <= Len(replies) + 1
           /\ \A i \in DOMAIN calls :
                calls[i].method = "PUT" => (i = 2 /\ Accepted(1))
           /\ (Answered /\ Accepted(1) /\ Failed(2))
                => /\ response.status = 200
                   /\ "error" \notin DOMAIN response.body
                   /\ ContentText(response)
                        = <<"Successfully created workflow '",
                            PyStr(RequestedName), "' with ID: ",
                            PyStr(replies[1].json.d["id"])>>
                   /\ Len(calls) = 2
                   /\ IsCreatePost(calls[1])
                   /\ IsActivationPut(calls[2], replies[1].json.d["id"])

\* workflow w7 is created, the PUT is answered 500
C4_Witness ==
    /\ CreateCall
    /\ ActiveRequested
    /\ Answered
    /\ Accepted(1)
    /\ replies[1].json.d["id"] = JStr("w7")
    /\ Len(replies) = 2
    /\ replies[2].kind = "http"
    /\ replies[2].status = 500
    /\ response.status = 200
    /\ Contains(ContentText(response), "w7")

SupportedTools ==
    {"n8n_create_workflow", "n8n_list_workflows", "n8n_get_workflow"}

\* params.get('name'): None when the key is absent
NamedTool ==
    IF "name" \in DOMAIN request.body.d["params"].d
    THEN request.body.d["params"].d["name"]
    ELSE None

\* an authenticated tools/call, params a mapping, naming no supported tool
UnknownToolCall ==
    /\ Authenticated
    /\ ToolCall
    /\ NamedTool \notin {JStr(n) : n \in SupportedTools}

\* an authenticated tools/call envelope without a params key
NoParamsCall ==
    /\ Authenticated
    /\ MethodIs("tools/call")
    /\ "params" \notin DOMAIN request.body.d

\* the body parsed as JSON
BodyIsJson == IsMcpPost /\ request.body \notin {Malformed, EmptyBody}

\* the parsed body has no `method` key: a dict without it, or no dict at all
NoMethodKey ==
    /\ BodyIsJson
    /\ request.body.t = "obj" => "method" \notin DOMAIN request.body.d

\* an authenticated envelope whose method is none of the names of the spec
OtherMethod ==
    /\ Authenticated
    /\ BodyIsDict
    /\ "method" \in DOMAIN request.body.d
    /\ request.body.d["method"]
         \notin {JStr("initialize"), JStr("tools/list"), JStr("tools/call")}

(***************************************************************************)
(* C6, as stated.  An authenticated tools/call whose params.name is not a  *)
(* supported tool name (an absent name included) returns an error with     *)
(* code -32601 and HTTP 400, and triggers zero backend calls.              *)
(***************************************************************************)
C6_Original ==
    UnknownToolCall
        => /\ pc = "idle"
           /\ response.status = 400
           /\ ErrorCodeOf(response) = -32601
           /\ calls = <<>>

(***************************************************************************)
(* C6, amended.  An authenticated tools/call whose params is a mapping and *)
(* whose params.name is not a supported tool name (an absent name          *)
(* included) returns HTTP 400 with the plain body                          *)
(* {error: "Unknown tool: <name>"}, which carries no JSON-RPC error code,  *)
(* and triggers zero backend calls.                                        *)
(***************************************************************************)
C6_UnknownTool ==
    UnknownToolCall
        => /\ pc = "idle"
           /\ response.status = 400
           /\ response.body = [error |-> <<"Unknown tool: ", PyStr(NamedTool)>>]
           /\ ErrorCodeOf(response) = 0
           /\ calls = <<>>

\* n8n_delete_workflow is called with a backend key configured
C6_Witness ==
    /\ UnknownToolCall
    /\ NamedTool = JStr("n8n_delete_workflow")
    /\ Truthy(N8N_API_KEY)
    /\ response.status = 400
    /\ response.body = [error |-> <<"Unknown tool: ", "n8n_delete_workflow">>]

(***************************************************************************)
(* C7, as stated.  An authenticated tools/call envelope with no `params`   *)
(* key returns an error with code -32602 and HTTP 400, and triggers zero   *)
(* backend calls.                                                          *)
(***************************************************************************)
C7_Original ==
    NoParamsCall
        => /\ pc = "idle"
           /\ response.status = 400
           /\ ErrorCodeOf(response) = -32602
           /\ calls = <<>>

(***************************************************************************)
(* C7, amended.  An authenticated tools/call envelope with no `params`     *)
(* key returns HTTP 400 with the plain body                                *)
(* {error: "Missing params in tool call"}, which carries no JSON-RPC error *)
(* code, and triggers zero backend calls.                                  *)
(***************************************************************************)
C7_MissingParams ==
    NoParamsCall
        => /\ pc = "idle"
           /\ response.status = 400
           /\ response.body = [error |-> <<"Missing params in tool call">>]
           /\ ErrorCodeOf(response) = 0
           /\ calls = <<>>

\* {method: "tools/call"} with a backend key configured
C7_Witness ==
    /\ NoParamsCall
    /\ request.body = Envelope(JStr("tools/call"), Absent)
    /\ Truthy(N8N_API_KEY)
    /\ pc = "idle"
    /\ response.status = 400

(***************************************************************************)
(* C8.  An authenticated request with method "initialize" is answered with *)
(* a static success result and HTTP 200, never with an unknown-method      *)
(* error.                                                                  *)
(***************************************************************************)
C8_Original ==
    (Authenticated /\ MethodIs("initialize"))
        => /\ pc = "idle"
           /\ response.status = 200
           /\ "error" \notin DOMAIN response.body

(***************************************************************************)
(* C9.  An authenticated POST /mcp whose body parses as JSON but has no    *)
(* `method` key (an object without it, a JSON null, array, string or       *)
(* number) is answered with the invalid-request error, HTTP 400, and no    *)
(* backend call is issued.  (The status alone is stated: the handler       *)
(* answers some of these bodies with 500.)                                 *)
(***************************************************************************)
C9_Original ==
    (Authenticated /\ NoMethodKey)
        => /\ pc = "idle"
           /\ response.status = 400
           /\ calls = <<>>

(***************************************************************************)
(* C10, as stated.  For an authenticated envelope whose `method` is none   *)
(* of the supported method names the response is an unknown-method error   *)
(* with code -32601 and HTTP 400, with zero backend calls.                 *)
(***************************************************************************)
C10_Original ==
    OtherMethod
        => /\ pc = "idle"
           /\ response.status = 400
           /\ ErrorCodeOf(response) = -32601
           /\ calls = <<>>

(***************************************************************************)
(* C10, amended.  For an authenticated envelope whose `method` is any      *)
(* value other than "initialize", "tools/list" and "tools/call" (compared  *)
(* by exact match: another case, a trailing blank or a non-string is       *)
(* another value), the response is HTTP 400 with the plain body            *)
(* {error: "Unknown method: <method>"}, which carries no JSON-RPC error    *)
(* code, with zero backend calls.                                          *)
(***************************************************************************)
C10_UnknownMethod ==
    OtherMethod
        => /\ pc = "idle"
           /\ response.status = 400
           /\ response.body
                = [error |-> <<"Unknown method: ",
                               PyStr(request.body.d["method"])>>]
           /\ ErrorCodeOf(response) = 0
           /\ calls = <<>>

\* "Tools/List" is not "tools/list"
C10_Witness ==
    /\ OtherMethod
    /\ MethodIs("Tools/List")
    /\ pc = "idle"
    /\ response.status = 400
    /\ response.body = [error |-> <<"Unknown method: ", "Tools/List">>]

(***************************************************************************)
(* Vocabulary of the backend-call properties.                              *)
(***************************************************************************)
\* the i-th backend call returned a document: make_n8n_request did not raise
Returned(i) ==
    /\ Len(replies) >= i
    /\ replies[i].kind = "http"
    /\ replies[i].status < 400
    /\ replies[i].json # NotJson

\* the backend API key the environment configures, None when unset
ConfiguredKey == getenv(environ, "N8N_API_KEY", None)

HttpVerbs == {"GET", "POST", "PUT", "DELETE"}

\* an authenticated tools/call that gets as far as the backend client
ReachesBackend ==
    /\ Authenticated
    /\ ToolCall
    /\ \/ CreateCall
       \/ ToolCallOf("n8n_list_workflows")
       \/ /\ ToolCallOf("n8n_get_workflow")
          /\ PassedArguments.t = "obj"
          /\ "id" \in DOMAIN PassedArguments.d
          /\ Truthy(PassedArguments.d["id"])

(***************************************************************************)
(* C11.  One inbound request causes at most two backend calls.  They are   *)
(* issued one after the other: a call goes out only when every earlier one *)
(* has been answered.  A second call is only ever the activation PUT that  *)
(* follows a creation POST which returned; list and get requests cause at  *)
(* most one call.                                                          *)
(***************************************************************************)
C11_AtMostTwoSequentialCalls ==
    /\ Len(calls) <= 2
    /\ Len(replies) <= Len(calls)
    /\ Len(calls) <= Len(replies) + 1
    /\ pc = "idle" => Len(replies) = Len(calls)
    /\ pc # "idle" => Len(calls) = Len(replies) + 1
    /\ Len(calls) = 2
         => /\ ToolCallOf("n8n_create_workflow")
            /\ IsCreatePost(calls[1])
            /\ Returned(1)
            /\ Accepted(1)
            /\ IsActivationPut(calls[2], replies[1].json.d["id"])
    /\ (ToolCallOf("n8n_list_workflows") \/ ToolCallOf("n8n_get_workflow"))
         => /\ Len(calls) <= 1
            /\ \A i \in DOMAIN calls : calls[i].method = "GET"

\* both calls of a create-and-activate have been answered
C11_Witness ==
    /\ Answered
    /\ Len(calls) = 2
    /\ Len(replies) = 2
    /\ calls[1].method = "POST"
    /\ calls[2].method = "PUT"
    /\ Returned(2)

(***************************************************************************)
(* C12.  While the backend API key is unset or empty, make_n8n_request     *)
(* fails with the configuration error for every HTTP verb and no backend   *)
(* call is ever issued; every tool call that gets as far as the backend    *)
(* client is answered with an error (HTTP 500 naming the missing key),     *)
(* never with a success.                                                   *)
(***************************************************************************)
C12_NoKeyNoCall ==
    (~Truthy(ConfiguredKey))
        => /\ calls = <<>>
           /\ pc = "idle"
           /\ \A verb \in HttpVerbs :
                make_n8n_request(verb, <<"/workflows">>, None, ConfiguredKey,
                                 DefaultUrl)
                    = Raise(<<"N8N_API_KEY not configured">>)
           /\ ReachesBackend
                => /\ response.status = 500
                   /\ Len(ContentText(response)) = 2
                   /\ ContentText(response)[2] = "N8N_API_KEY not configured"

\* an activating create with an empty key
C12_Witness ==
    /\ ConfiguredKey = JStr("")
    /\ CreateCall
    /\ ActiveRequested
    /\ response.status = 500
    /\ ContentText(response)
         = <<"Failed to create workflow: ", "N8N_API_KEY not configured">>

(***************************************************************************)
(* C13.  GET /health is idempotent: any two GET /health calls of one       *)
(* process with an unchanged environment return identical bodies, whatever *)
(* requests (POST /mcp included) are handled before or between them.       *)
(***************************************************************************)
C13_Original == Cardinality(health_bodies) <= 1

(***************************************************************************)
(* C14.  With the environment fixed, whatever the interleaving of the      *)
(* worker threads, a thread that has run its own init_config finds the     *)
(* globals fully loaded from the environment, every value it reads from    *)
(* them is the loaded one, and its backend calls and its response are      *)
(* those of the same request, with the same backend replies, handled alone.*)
(***************************************************************************)
\* the calls and the response of `req` handled alone with an unchanged
\* configuration, the backend answering with the replies rs in turn
RECURSIVE alone_from(_, _, _, _, _)
alone_from(step, rs, sent, key, url) ==
    IF step.kind = "respond"
    THEN [calls |-> sent, response |-> step.response]
    ELSE IF rs = <<>>
    THEN [calls |-> Append(sent, step.call), response |-> NoResponse]
    ELSE alone_from(returned(step.pc, step.frame, step.call, Head(rs), key,
                             url),
                    Tail(rs), Append(sent, step.call), key, url)

alone(req, rs) ==
    alone_from(handle(req, Loaded.token, Loaded.key, Loaded.url.s), rs, <<>>,
               Loaded.key, Loaded.url.s)

\* thread t is past its own init_config
PastInitConfig(t) ==
    threads[t].pc \notin {"idle", "init_1", "init_2", "init_3"}

C14_ConcurrentAsAlone ==
    \A t \in Threads :
        LET th == threads[t]
        IN  /\ PastInitConfig(t) => Globals = Loaded
            /\ th.token \in {Unread, Loaded.token}
            /\ th.key \in {Unread, Loaded.key}
            /\ th.url \in {Unread, Loaded.url}
            /\ th.pc \in {"blocked", "done"}
                 => /\ th.calls = alone(th.req, th.replies).calls
                    /\ th.response = alone(th.req, th.replies).response

\* a thread between the reads of lines 49 and 51 for the activation PUT,
\* while another thread is halfway through init_config
C14_Witness ==
    \E t, u \in Threads :
        /\ threads[t].pc = "key_51"
        /\ Len(threads[t].calls) = 1
        /\ threads[u].pc = "init_2"

(***************************************************************************)
(* C15.  Every authenticated POST /mcp, whatever its body and whatever the *)
(* backend answers, ends in one response: none is sent while the handler   *)
(* waits for the backend, the handler does come to its response, and that  *)
(* response has status 200, 400 or 500.  A 500 of a call that reached a    *)
(* tool handler is the handler's own content block, any other 500 is the   *)
(* top-level {error: ...} body.                                            *)
(***************************************************************************)
\* the call reached one of the three tool handlers
ReachedToolHandler ==
    \E name \in {"n8n_create_workflow", "n8n_list_workflows",
                  "n8n_get_workflow"} : ToolCallOf(name)

C15_Statuses ==
    Authenticated
        => /\ pc # "idle" => response = NoResponse
           /\ pc = "idle"
                => /\ response.status \in {200, 400, 500}
                   /\ response.status = 500 /\ ReachedToolHandler
                        => DOMAIN response.body = {"content"}
                   /\ response.status = 500 /\ ~ReachedToolHandler
                        => DOMAIN response.body = {"error"}

C15_OneResponse ==
    /\ []C15_Statuses
    /\ (Authenticated /\ pc # "idle") ~> (Authenticated /\ pc = "idle")

\* a tools/call whose params is an array: params.get raises outside the
\* try of handle_tool_call and the top-level handler answers 500
C15_Witness ==
    /\ Authenticated
    /\ MethodIs("tools/call")
    /\ "params" \in DOMAIN request.body.d
    /\ request.body.d["params"].t = "arr"
    /\ pc = "idle"
    /\ response.status = 500
    /\ DOMAIN response.body = {"error"}

(***************************************************************************)
(* C16.  An authenticated tools/call of n8n_get_workflow whose arguments   *)
(* (absent, or a mapping) hold no id or an empty one is answered 400 with  *)
(* {error: "Workflow ID is required"} and issues no backend call.  With an *)
(* id, the only call ever issued is a GET of /workflows/<id>, exactly one  *)
(* when the backend key is configured, and when that GET fails (HTTP >=    *)
(* 400 such as 404, or a transport error) the answer is the handler's      *)
(* content block "Failed to get workflow: ..." with HTTP 500.              *)
(***************************************************************************)
\* an authenticated tools/call of n8n_get_workflow with mapping arguments
GetCall ==
    /\ Authenticated
    /\ ToolCallOf("n8n_get_workflow")
    /\ PassedArguments.t = "obj"

\* arguments.get('id') is None or empty
NoWorkflowId ==
    \/ "id" \notin DOMAIN PassedArguments.d
    \/ ~Truthy(PassedArguments.d["id"])

IsItemGet(call, id) ==
    /\ call.method = "GET"
    /\ call.url = <<N8N_API_URL.s, "/api/v1", "/workflows/", PyStr(id)>>
    /\ call.json = None

ShouldActivate ==
    /\ "active" \in DOMAIN PassedArguments.d
    /\ Truthy(PassedArguments.d["active"])

PutIssued == \E i \in DOMAIN calls : calls[i].method = "PUT"

\* the i-th backend call returned an object that holds no id
ReturnedWithoutId(i) ==
    /\ Returned(i)
    /\ replies[i].json.t = "obj"
    /\ "id" \notin DOMAIN replies[i].json.d

C17_PutIffRequestedAndId ==
    CreateCall
        => /\ PutIssued <=> (ShouldActivate /\ Accepted(1))
           /\ PutIssued
                => /\ Len(calls) = 2
                   /\ IsCreatePost(calls[1])
                   /\ IsActivationPut(calls[2], replies[1].json.d["id"])
           /\ ReturnedWithoutId(1)
                => /\ pc = "idle"
                   /\ Len(calls) = 1
                   /\ response.status = 200
                   /\ ContentText(response)
                        = <<"Successfully created workflow '",
                            PyStr(RequestedName), "' with ID: ", "unknown">>

\* activation is requested and the creation answers {name: "wf"}
C17_Witness ==
    /\ CreateCall
    /\ ActiveRequested
    /\ ReturnedWithoutId(1)
    /\ Answered
    /\ ~PutIssued
    /\ response.status = 200
    /\ Contains(ContentText(response), "unknown")

(***************************************************************************)
(* C18.  The id in the success text of n8n_create_workflow is the id of    *)
(* the workflow object current when the handler finishes: the PUT's        *)
(* response when the activation succeeded, else the POST's response        *)
(* (activation not attempted, or failed).  When that object holds no id    *)
(* the text shows 'unknown', also when the creation did return an id.  A   *)
(* current object that is a JSON object always yields the 200 success.     *)
(***************************************************************************)
\* workflow_result at line 226
CurrentWorkflow ==
    IF Len(replies) = 2 /\ Returned(2)
    THEN replies[2].json
    ELSE replies[1].json

\* workflow_result.get('id', 'unknown') as the f-string of line 232 shows it
ReportedId(workflow) ==
    IF "id" \in DOMAIN workflow.d THEN PyStr(workflow.d["id"]) ELSE "unknown"

C18_ReportedIdIsCurrent ==
    (CreateCall /\ Answered /\ Returned(1))
        => /\ CurrentWorkflow.t = "obj" <=> response.status = 200
           /\ response.status = 200
                => ContentText(response)
                     = <<"Successfully created workflow '",
                         PyStr(RequestedName), "' with ID: ",
                         ReportedId(CurrentWorkflow)>>

\* workflow w7 is created, the activation succeeds and answers an object
\* without an id
C18_Witness ==
    /\ CreateCall
    /\ Answered
    /\ Accepted(1)
    /\ replies[1].json.d["id"] = JStr("w7")
    /\ Len(replies) = 2
    /\ ReturnedWithoutId(2)
    /\ response.status = 200
    /\ ContentText(response)[4] = "unknown"

(***************************************************************************)
(* Vocabulary of C19.                                                      *)
(***************************************************************************)
\* a POST /mcp carrying an Authorization header, with a non-empty token
\* configured
HeaderAndToken ==
    /\ IsMcpPost
    /\ "Authorization" \in DOMAIN request.headers
    /\ Truthy(ConfiguredToken)

PresentedHeader == request.headers["Authorization"].c

\* the request was answered 401
Rejected == pc = "idle" /\ response.status = 401

(***************************************************************************)
(* C19, as stated.  For every non-empty configured token T, a POST /mcp    *)
(* whose Authorization header is T itself or "Bearer " followed by T is    *)
(* never answered 401, also when T itself begins with "Bearer ".           *)
(***************************************************************************)
C19_Original ==
    (HeaderAndToken
        /\ PresentedHeader \in {ConfiguredToken.c, Bearer \o ConfiguredToken.c})
        => ~Rejected

(***************************************************************************)
(* C19, amended.  For every non-empty configured token T, a POST /mcp      *)
(* passes authentication exactly when its Authorization header, with one   *)
(* leading "Bearer " removed, equals T character for character (case       *)
(* included).  So the header "Bearer " followed by T always passes; the    *)
(* header T itself passes when T does not begin with "Bearer ", and is     *)
(* answered 401 when it does, because the prefix is removed from it before *)
(* the comparison.                                                         *)
(***************************************************************************)
C19_StrippedHeaderEqualsToken ==
    HeaderAndToken
        => /\ Stripped(PresentedHeader) = ConfiguredToken.c <=> ~Rejected
           /\ PresentedHeader = Bearer \o ConfiguredToken.c => ~Rejected
           /\ (/\ PresentedHeader = ConfiguredToken.c
               /\ ~StartsWith(ConfiguredToken.c, Bearer)) => ~Rejected
           /\ (/\ PresentedHeader = ConfiguredToken.c
               /\ StartsWith(ConfiguredToken.c, Bearer)) => Rejected

\* the token is "Bearer s": the header "Bearer s" has been answered 401
C19_Witness ==
    /\ HeaderAndToken
    /\ ConfiguredToken.c = Bearer \o Secret
    /\ PresentedHeader = ConfiguredToken.c
    /\ Rejected

(***************************************************************************)
(* C20.  The names tools/list advertises are exactly the names tools/call  *)
(* routes to a handler.  An authenticated tools/call naming an advertised  *)
(* tool is never answered with the unknown-tool error, one naming anything *)
(* else always is, without a backend call.  An authenticated tools/list is *)
(* answered at once with the same catalog, whatever the configuration and  *)
(* whatever was handled before, and issues no backend call.                *)
(***************************************************************************)
\* the catalog of tools/list
Catalog == handle_tools_list.response.body.tools

AdvertisedNames == {JStr(Catalog[i].name) : i \in DOMAIN Catalog}

UnknownToolError(name) ==
    jsonify(ErrorBody(<<"Unknown tool: ", PyStr(name)>>), 400)

\* the names tools/call hands to a tool handler, among those tried
RoutedNames ==
    {n \in (ToolNameValues \ {Absent}) \cup AdvertisedNames :
        handle_tool_call(Envelope(JStr("tools/call"), JObj([name |-> n])),
                         AnyKey, DefaultUrl)
            # Respond(UnknownToolError(n))}

C20_CatalogMatchesRouter ==
    /\ AdvertisedNames = RoutedNames
    /\ (Authenticated /\ MethodIs("tools/list"))
         => /\ pc = "idle"
            /\ response = handle_tools_list.response
            /\ response.status = 200
            /\ calls = <<>>
    /\ (Authenticated /\ ToolCall /\ NamedTool \in AdvertisedNames)
         => ~(pc = "idle" /\ response = UnknownToolError(NamedTool))
    /\ (Authenticated /\ ToolCall /\ NamedTool \notin AdvertisedNames)
         => /\ pc = "idle"
            /\ response = UnknownToolError(NamedTool)
            /\ calls = <<>>

\* tools/list answered while no backend key is configured
C20_Witness ==
    /\ Authenticated
    /\ MethodIs("tools/list")
    /\ ~Truthy(ConfiguredKey)
    /\ pc = "idle"
    /\ response.status = 200
    /\ Len(response.body.tools) = 3
    /\ calls = <<>>

====
